---------------------------- MODULE Spec2Model ----------------------------
(***************************************************************************)
(* Two Django REST backends over a relational store.                       *)
(*                                                                         *)
(*   job_application_api : Applicant, Job, Application, POST /api/apply/   *)
(*   sales_analytics_api : Customer, Product, Order, OrderItem             *)
(*                                                                         *)
(* The store runs in autocommit mode (no ATOMIC_REQUESTS, no               *)
(* transaction.atomic anywhere in the source), so the handlers of          *)
(* concurrent requests interleave between their ORM calls.  A handler in   *)
(* flight occupies a request slot; its pc names the serializer or view     *)
(* method it executes next.  The reads of one method are one step (each    *)
(* later method reads again, so a write landing between two reads of a     *)
(* method has the outcome of the same write landing after the method);     *)
(* every write is a step of its own.  A request body is drawn at the step  *)
(* that first reads it.                                                    *)
(*                                                                         *)
(*   JobSpec      job domain, requests interleave                          *)
(*   JobSeqSpec   job domain, one request at a time                        *)
(*   SalesSpec    sales domain: an order handler, the single-transaction   *)
(*                requests landing between its steps, and a worker crash   *)
(*   SalesSeqSpec sales domain, one request at a time                      *)
(*   ReportSpec   the read-only reports over stores the requests filled    *)
(*   ProductSpec  product requests with every price                        *)
(*   EmailSpec    account requests with every address                      *)
(*   ProjectsSpec both projects, each over its own store                   *)
(***************************************************************************)
EXTENDS Integers, Sequences, FiniteSets, TLC

\* ------------------------------------------------------------------ bounds
MaxApplicants == 2
MaxJobs == 2
MaxApplications == 2
MaxSlots == 2
MaxCustomers == 2
MaxProducts == 2
MaxOrders == 2
MaxItems == 3
MaxQuantity == 2
MaxLen == 2

ApplicantIds == 1..MaxApplicants
JobIds == 1..MaxJobs
ApplicationIds == 1..MaxApplications
Slots == 1..MaxSlots

\* An id or a field a request does not supply.
NoId == 0
NoStatus == "none"

\* Application.STATUS_CHOICES and Application.status default
STATUS_CHOICES == {"applied", "shortlisted", "rejected"}
DefaultStatus == "applied"
\* status values a request body can carry: the choices and one outside them
StatusInputs == STATUS_CHOICES \cup {"hired"}

\* An email address: `user` tells addresses apart whatever the case of
\* their letters, `upper` says that the address has capital letters.
MaxUsers == 2
Emails == [user : 1..MaxUsers, upper : BOOLEAN]

\* str.lower()
lower(e) == [e EXCEPT !.upper = FALSE]

\* The address a new account registers with when nothing else is said: in
\* lowercase, and nobody else's.
Address(n) == [user |-> n, upper |-> FALSE]

VARIABLES
    applicants,         \* ids of the stored Applicant rows
    jobs,               \* ids of the stored Job rows
    applications,       \* stored Application rows [id, applicant, job, status]
    nextApplicantId,    \* AUTOINCREMENT counters: an id is never reused
    nextJobId,
    nextApplicationId,
    req,                \* the request in flight in each slot
    customers,          \* ids of the stored Customer rows
    products,           \* stored Product rows: id -> price (in cents)
    orders,             \* stored Order rows [id, customer]
    items,              \* stored OrderItem rows [id, order, product, quantity]
    nextOrderId,        \* AUTOINCREMENT counters
    nextItemId,
    oreq,               \* the order request in flight
    order_date,         \* Order.order_date: order id -> instant
    nextProductId,      \* AUTOINCREMENT counter of Product
    now,                \* the clock that auto_now_add reads
    applicant_email,    \* Applicant.email: applicant id -> address
    customer_email,     \* Customer.email: customer id -> address
    nextCustomerId,     \* AUTOINCREMENT counter of Customer
    report              \* the response to the last read-only request

jobVars == <<applicants, applicant_email, jobs, applications, nextApplicantId,
             nextJobId, nextApplicationId, req>>

\* the clock and the response log
apiVars == <<now, report>>

salesVars == <<customers, customer_email, nextCustomerId, products, orders, items,
               nextOrderId, nextItemId, oreq, order_date, nextProductId, apiVars>>

vars == <<jobVars, salesVars>>

storeVars == <<applicants, applicant_email, jobs, applications, nextApplicantId,
               nextJobId, nextApplicationId>>

\* ------------------------------------------------------------- the store

\* Application.Meta without its constraints entry.
unique_applicant_job_dropped(id, a, j) == TRUE

\* Application.Meta.constraints: UniqueConstraint(fields=['applicant','job']),
\* seen from a row with id `id` that is about to hold the pair (a, j).
unique_applicant_job(id, a, j) ==
    \A x \in applications : (x.applicant = a /\ x.job = j) => x.id = id

\* ForeignKey(Applicant), ForeignKey(Job): the referenced rows exist.
ForeignKeysHold(a, j) == a \in applicants /\ j \in jobs

\* Application.objects.filter(applicant=a, job=j).exists()
ApplicationExists(a, j) ==
    \E x \in applications : x.applicant = a /\ x.job = j

\* The INSERT of Application.objects.create(...) succeeds.
CanInsertApplication(a, j) ==
    /\ nextApplicationId <= MaxApplications
    /\ unique_applicant_job(NoId, a, j)
    /\ ForeignKeysHold(a, j)

NewApplication(a, j, s) ==
    [id |-> nextApplicationId, applicant |-> a, job |-> j, status |-> s]

\* ------------------------------------------------------------- requests

\* self.instance of a serializer that was given none
NoRow == [id |-> NoId, applicant |-> NoId, job |-> NoId, status |-> NoStatus]

\* op, pc : the handler and the method it runs next
\* row    : the row the handler works on (the body's ids, the loaded
\*          instance, the validated data)
\* errs   : a field error was collected
\* resp, body : the response's status code, and what its body is: "error"
\*          ({'error': ...}), "message" ({'message': ..., 'application':
\*          the record}), "record" (the serialized row), "fields" (the
\*          framework's errors by field), "non_field_errors" (the
\*          framework's errors of the whole body), "detail" (its 404)
IdleReq ==
    [op |-> "idle", pc |-> "idle", row |-> NoRow, errs |-> FALSE,
     resp |-> 0, body |-> "none"]

\* The slot's worker has no handler running.
Free(r) == req[r].pc \in {"idle", "done"}

\* A handler starts in the first free slot.
Begin(r, op, pc, row) ==
    /\ Free(r)
    /\ \A q \in Slots : q < r => ~Free(q)
    /\ req' = [req EXCEPT ![r] =
                 [IdleReq EXCEPT !.op = op, !.pc = pc, !.row = row]]

Goto(r, pc) == req' = [req EXCEPT ![r].pc = pc]

\* The handler returns Response(body, status=code).  The slot shows the
\* response until the worker takes its next request.
Respond(r, code, body) ==
    req' = [req EXCEPT ![r] =
              [IdleReq EXCEPT !.op = req[r].op, !.pc = "done",
                              !.resp = code, !.body = body]]

\* An exception no handler catches: the framework answers 500.
Unhandled(r) == Respond(r, 500, "none")

\* ---------------------------------------------- POST /api/apply/ (views.py)

\* apply_for_job: serializer = ApplySerializer(data=request.data) with the
\* body {applicant_id: a, job_id: j}
apply_for_job(r, a, j) ==
    /\ Begin(r, "apply", "validate_applicant_id",
             [NoRow EXCEPT !.applicant = a, !.job = j])
    /\ UNCHANGED <<storeVars, salesVars>>

\* ApplySerializer.validate_applicant_id: Applicant.objects.get(id=value);
\* DoesNotExist becomes a field error and validation goes on to the next field.
validate_applicant_id(r) ==
    /\ req[r].op = "apply" /\ req[r].pc = "validate_applicant_id"
    /\ req' = [req EXCEPT ![r].errs = req[r].row.applicant \notin applicants,
                          ![r].pc = "validate_job_id"]
    /\ UNCHANGED <<storeVars, salesVars>>

\* validate_job_id returning the value without looking the job up.
validate_job_id_unchecked(r) ==
    /\ req[r].op = "apply" /\ req[r].pc = "validate_job_id"
    /\ IF req[r].errs
       THEN Respond(r, 400, "error")
       ELSE Goto(r, "validate")
    /\ UNCHANGED <<storeVars, salesVars>>

\* ApplySerializer.validate_job_id: Job.objects.get(id=value).  With a field
\* error is_valid() is False, validate() is not run and the view answers 400
\* {'error': 'Application failed', 'details': serializer.errors}.
validate_job_id(r) ==
    /\ req[r].op = "apply" /\ req[r].pc = "validate_job_id"
    /\ IF req[r].errs \/ req[r].row.job \notin jobs
       THEN Respond(r, 400, "error")
       ELSE Goto(r, "validate")
    /\ UNCHANGED <<storeVars, salesVars>>

\* ApplySerializer.validate without its duplicate pre-check.
ApplySerializer_validate_unchecked(r) ==
    /\ req[r].op = "apply" /\ req[r].pc = "validate"
    /\ ForeignKeysHold(req[r].row.applicant, req[r].row.job)
    /\ Goto(r, "create")
    /\ UNCHANGED <<storeVars, salesVars>>

\* ApplySerializer.validate: Applicant.objects.get, Job.objects.get, then the
\* duplicate pre-check Application.objects.filter(...).exists().
ApplySerializer_validate(r) ==
    /\ req[r].op = "apply" /\ req[r].pc = "validate"
    /\ ForeignKeysHold(req[r].row.applicant, req[r].row.job)
    /\ IF ApplicationExists(req[r].row.applicant, req[r].row.job)
       THEN Respond(r, 400, "error")
       ELSE Goto(r, "create")
    /\ UNCHANGED <<storeVars, salesVars>>

\* ApplySerializer.create: Applicant.objects.get, Job.objects.get
ApplySerializer_create_get(r) ==
    /\ req[r].op = "apply" /\ req[r].pc = "create"
    /\ ForeignKeysHold(req[r].row.applicant, req[r].row.job)
    /\ Goto(r, "insert")
    /\ UNCHANGED <<storeVars, salesVars>>

\* The get of validate() or create() when the row was deleted since the field
\* validation saw it: Applicant.DoesNotExist / Job.DoesNotExist, which
\* is_valid() and apply_for_job do not catch.
ApplySerializer_DoesNotExist(r) ==
    /\ req[r].op = "apply" /\ req[r].pc \in {"validate", "create"}
    /\ ~ForeignKeysHold(req[r].row.applicant, req[r].row.job)
    /\ Unhandled(r)
    /\ UNCHANGED <<storeVars, salesVars>>

\* ApplySerializer.create leaving the status to the body ('status' is no
\* field of ApplySerializer, so any value could be stored).
ApplySerializer_create_any_status(r) ==
    /\ req[r].op = "apply" /\ req[r].pc = "insert"
    /\ CanInsertApplication(req[r].row.applicant, req[r].row.job)
    /\ \E st \in STATUS_CHOICES :
         applications' = applications \cup
             {NewApplication(req[r].row.applicant, req[r].row.job, st)}
    /\ nextApplicationId' = nextApplicationId + 1
    /\ Respond(r, 201, "message")
    /\ UNCHANGED <<applicants, applicant_email, jobs, nextApplicantId, nextJobId, salesVars>>

\* ApplySerializer.create: Application.objects.create(applicant, job,
\* status='applied'); apply_for_job answers 201 with the created record.
ApplySerializer_create(r) ==
    /\ req[r].op = "apply" /\ req[r].pc = "insert"
    /\ CanInsertApplication(req[r].row.applicant, req[r].row.job)
    /\ applications' = applications \cup
           {NewApplication(req[r].row.applicant, req[r].row.job, "applied")}
    /\ nextApplicationId' = nextApplicationId + 1
    /\ Respond(r, 201, "message")
    /\ UNCHANGED <<applicants, applicant_email, jobs, nextApplicantId, nextJobId, salesVars>>

\* The INSERT violates unique_applicant_job or a foreign key: IntegrityError.
\* apply_for_job has no try/except around serializer.save().
ApplySerializer_create_IntegrityError(r) ==
    /\ req[r].op = "apply" /\ req[r].pc = "insert"
    /\ \/ ~unique_applicant_job(NoId, req[r].row.applicant, req[r].row.job)
       \/ ~ForeignKeysHold(req[r].row.applicant, req[r].row.job)
    /\ Unhandled(r)
    /\ UNCHANGED <<storeVars, salesVars>>

\* ------------------------------- /api/applications/ (ApplicationViewSet)

\* ApplicationViewSet.create: serializer = self.get_serializer(data=...)
ApplicationViewSet_create(r) ==
    /\ Begin(r, "create", "to_internal_value", NoRow)
    /\ UNCHANGED <<storeVars, salesVars>>

\* PUT/PATCH /api/applications/{id}/ (ModelViewSet.update / partial_update)
ApplicationViewSet_update(r, id) ==
    /\ Begin(r, "update", "get_object", [NoRow EXCEPT !.id = id])
    /\ UNCHANGED <<storeVars, salesVars>>

\* get_object() over ApplicationViewSet.queryset: the row, or 404.
ApplicationViewSet_get_object(r) ==
    /\ req[r].op = "update" /\ req[r].pc = "get_object"
    /\ IF \E x \in applications : x.id = req[r].row.id
       THEN req' = [req EXCEPT
                ![r].row = CHOOSE x \in applications : x.id = req[r].row.id,
                ![r].pc = "to_internal_value"]
       ELSE Respond(r, 404, "detail")
    /\ UNCHANGED <<storeVars, salesVars>>

\* What ApplicationViewSet answers to a ValidationError: create catches every
\* exception and answers 400 {'error': str(e)}; update leaves it to the
\* framework, which answers 400 with the errors by field.
ValidationError(r) ==
    Respond(r, 400, IF req[r].op = "create" THEN "error" ELSE "fields")

\* The validated data of a serializer whose 'status' field is read-only: the
\* status of the body is dropped.
Validated_status_read_only(r, a, j, s) ==
    [id |-> req[r].row.id,
     applicant |-> IF a # NoId THEN a ELSE req[r].row.applicant,
     job |-> IF j # NoId THEN j ELSE req[r].row.job,
     status |-> IF req[r].op = "create" THEN DefaultStatus
                ELSE req[r].row.status]

\* The data the serializer will save: the body's fields (NoId, NoStatus: not
\* in the body) over the instance's (update) or the model defaults (create).
Validated(r, a, j, s) ==
    [id |-> req[r].row.id,
     applicant |-> IF a # NoId THEN a ELSE req[r].row.applicant,
     job |-> IF j # NoId THEN j ELSE req[r].row.job,
     status |-> IF s # NoStatus THEN s
                ELSE IF req[r].op = "create" THEN DefaultStatus
                ELSE req[r].row.status]

\* ApplicationSerializer fields of the body {applicant: a, job: j, status: s}:
\* 'applicant' and 'job' are primary keys of stored rows (required when
\* creating), 'status' is one of STATUS_CHOICES.
ApplicationSerializer_fields(r, a, j, s) ==
    /\ req[r].op \in {"create", "update"} /\ req[r].pc = "to_internal_value"
    /\ IF \/ a # NoId /\ a \notin applicants
          \/ j # NoId /\ j \notin jobs
          \/ req[r].op = "create" /\ (a = NoId \/ j = NoId)
          \/ s \notin STATUS_CHOICES \cup {NoStatus}
       THEN ValidationError(r)
       ELSE req' = [req EXCEPT ![r].row = Validated(r, a, j, s),
                               ![r].pc = "run_validators"]
    /\ UNCHANGED <<storeVars, salesVars>>

\* The answer to an error that belongs to no single field: as
\* ValidationError, with the framework's errors under 'non_field_errors'.
NonFieldError(r) ==
    Respond(r, 400, IF req[r].op = "create" THEN "error" ELSE "non_field_errors")

\* The validator applied like ApplicationSerializer.validate: to a create
\* only.
ApplicationSerializer_unique_together_create_only(r) ==
    /\ req[r].op \in {"create", "update"} /\ req[r].pc = "run_validators"
    /\ IF /\ req[r].op = "create"
          /\ ~unique_applicant_job(req[r].row.id, req[r].row.applicant, req[r].row.job)
       THEN NonFieldError(r)
       ELSE Goto(r, IF req[r].op = "create" THEN "validate" ELSE "perform_update")
    /\ UNCHANGED <<storeVars, salesVars>>

\* The validator ModelSerializer derives from Application.Meta.constraints:
\* another row (not the instance) already holds the pair.
ApplicationSerializer_unique_together(r) ==
    /\ req[r].op \in {"create", "update"} /\ req[r].pc = "run_validators"
    /\ IF ~unique_applicant_job(req[r].row.id, req[r].row.applicant, req[r].row.job)
       THEN NonFieldError(r)
       ELSE Goto(r, IF req[r].op = "create" THEN "validate" ELSE "perform_update")
    /\ UNCHANGED <<storeVars, salesVars>>

\* ApplicationSerializer.validate: `if not self.instance`, the duplicate check.
ApplicationSerializer_validate(r) ==
    /\ req[r].op = "create" /\ req[r].pc = "validate"
    /\ IF ApplicationExists(req[r].row.applicant, req[r].row.job)
       THEN ValidationError(r)
       ELSE Goto(r, "perform_create")
    /\ UNCHANGED <<storeVars, salesVars>>

\* ApplicationViewSet.create: self.perform_create(serializer), 201.
ApplicationViewSet_perform_create(r) ==
    /\ req[r].op = "create" /\ req[r].pc = "perform_create"
    /\ CanInsertApplication(req[r].row.applicant, req[r].row.job)
    /\ applications' = applications \cup
           {NewApplication(req[r].row.applicant, req[r].row.job, req[r].row.status)}
    /\ nextApplicationId' = nextApplicationId + 1
    /\ Respond(r, 201, "record")
    /\ UNCHANGED <<applicants, applicant_email, jobs, nextApplicantId, nextJobId, salesVars>>

\* ApplicationViewSet.create: `except Exception as e` around perform_create:
\* the IntegrityError of the INSERT is answered 400 {'error': str(e)}.
ApplicationViewSet_create_except(r) ==
    /\ req[r].op = "create" /\ req[r].pc = "perform_create"
    /\ \/ ~unique_applicant_job(NoId, req[r].row.applicant, req[r].row.job)
       \/ ~ForeignKeysHold(req[r].row.applicant, req[r].row.job)
    /\ Respond(r, 400, "error")
    /\ UNCHANGED <<storeVars, salesVars>>

\* perform_update: instance.save().  Model.save() writes every field of the
\* instance: an UPDATE of the row, or an INSERT under the same id when the
\* UPDATE matched no row.
ApplicationViewSet_perform_update(r) ==
    /\ req[r].op = "update" /\ req[r].pc = "perform_update"
    /\ unique_applicant_job(req[r].row.id, req[r].row.applicant, req[r].row.job)
    /\ ForeignKeysHold(req[r].row.applicant, req[r].row.job)
    /\ applications' =
           {x \in applications : x.id # req[r].row.id} \cup {req[r].row}
    /\ Respond(r, 200, "record")
    /\ UNCHANGED <<applicants, applicant_email, jobs, nextApplicantId, nextJobId, nextApplicationId, salesVars>>

\* instance.save() violates unique_applicant_job or a foreign key:
\* IntegrityError, which ModelViewSet.update does not catch.
ApplicationViewSet_perform_update_IntegrityError(r) ==
    /\ req[r].op = "update" /\ req[r].pc = "perform_update"
    /\ \/ ~unique_applicant_job(req[r].row.id, req[r].row.applicant, req[r].row.job)
       \/ ~ForeignKeysHold(req[r].row.applicant, req[r].row.job)
    /\ Unhandled(r)
    /\ UNCHANGED <<storeVars, salesVars>>

\* DELETE /api/applications/{id}/
ApplicationViewSet_destroy(id) ==
    /\ \E x \in applications : x.id = id
    /\ applications' = {x \in applications : x.id # id}
    /\ UNCHANGED <<applicants, applicant_email, jobs, nextApplicantId, nextJobId, nextApplicationId, req, salesVars>>

\* ------------------------------------- /api/applicants/ and /api/jobs/

\* The rows of a table id -> address that hold the address e: the lookup
\* filter(email=e) and the UNIQUE index compare the strings as they are
\* (sqlite3: a comparison by bytes).
EmailRows(table, e) == {x \in DOMAIN table : table[x] = e}

\* ApplicantSerializer.validate_email: return value.lower()
validate_email(value) == lower(value)

\* POST /api/applicants/ with the address e: the UniqueValidator of the
\* field (unique=True) looks the address of the body up, validate_email
\* lowers it, and the INSERT writes the lowered address.
ApplicantViewSet_create(e) ==
    /\ nextApplicantId <= MaxApplicants
    /\ EmailRows(applicant_email, e) = {}
    /\ EmailRows(applicant_email, validate_email(e)) = {}
    /\ applicants' = applicants \cup {nextApplicantId}
    /\ applicant_email' = (nextApplicantId :> validate_email(e)) @@ applicant_email
    /\ nextApplicantId' = nextApplicantId + 1
    /\ UNCHANGED <<jobs, applications, nextJobId, nextApplicationId, req, salesVars>>

\* The applicant's row deleted and its applications left behind.
ApplicantViewSet_destroy_no_cascade(a) ==
    /\ a \in applicants
    /\ applicants' = applicants \ {a}
    /\ applicant_email' = [x \in DOMAIN applicant_email \ {a} |-> applicant_email[x]]
    /\ UNCHANGED <<jobs, applications, nextApplicantId, nextJobId, nextApplicationId, req, salesVars>>

\* DELETE /api/applicants/{id}/: on_delete=CASCADE deletes the applicant's
\* applications in the same transaction.
ApplicantViewSet_destroy(a) ==
    /\ a \in applicants
    /\ applicants' = applicants \ {a}
    /\ applicant_email' = [x \in DOMAIN applicant_email \ {a} |-> applicant_email[x]]
    /\ applications' = {x \in applications : x.applicant # a}
    /\ UNCHANGED <<jobs, nextApplicantId, nextJobId, nextApplicationId, req, salesVars>>

\* POST /api/jobs/
JobViewSet_create ==
    /\ nextJobId <= MaxJobs
    /\ jobs' = jobs \cup {nextJobId}
    /\ nextJobId' = nextJobId + 1
    /\ UNCHANGED <<applicants, applicant_email, applications, nextApplicantId, nextApplicationId, req, salesVars>>

\* DELETE /api/jobs/{id}/: on_delete=CASCADE
JobViewSet_destroy(j) ==
    /\ j \in jobs
    /\ jobs' = jobs \ {j}
    /\ applications' = {x \in applications : x.job # j}
    /\ UNCHANGED <<applicants, applicant_email, nextApplicantId, nextJobId, nextApplicationId, req, salesVars>>

\* ====================================================== sales_analytics_api

CustomerIds == 1..MaxCustomers
ProductIds == 1..MaxProducts
OrderIds == 1..MaxOrders

\* OrderItem.quantity: MinValueValidator(1); validate_quantity: value < 1
MinQuantity == 1

\* Product.price: the price the products are registered with, and the
\* prices a request can set
ListPrice == 50
Prices == {ListPrice, 75}

\* The items of a request body: [{product, quantity}, ...]
ItemData == [product : ProductIds, quantity : 0..MaxQuantity]
ItemLists == UNION {[1..n -> ItemData] : n \in 0..MaxLen}

\* Instants of the clock: TicksPerDay to a day, the first of them the day's
\* midnight.  NoDate: no instant (a date parameter the request does not have).
MaxDay == 1
TicksPerDay == 2
Days == 0..MaxDay
Instants == 0..((MaxDay + 1) * TicksPerDay - 1)
NoDate == -1

\* The worker of the read-only requests has no response to send.
IdleReport == [op |-> "idle"]

salesStore == <<customers, customer_email, nextCustomerId, products, orders, items,
                nextOrderId, nextItemId, order_date, nextProductId>>

\* subtotal from a price captured when the product was registered instead of
\* the product's current price.
subtotal_captured_price(item) == item.quantity * ListPrice

\* OrderItem.subtotal: self.quantity * self.product.price
subtotal(item) == item.quantity * products[item.product]

\* sum(item.subtotal for item in rows)
RECURSIVE SumSubtotal(_)
SumSubtotal(rows) ==
    IF rows = {} THEN 0
    ELSE LET item == CHOOSE x \in rows : TRUE
         IN  subtotal(item) + SumSubtotal(rows \ {item})

\* order.items.all()
OrderItems(o) == {i \in items : i.order = o}

\* total_price summing over OrderItem.objects.all() instead of self.items.
total_price_all_items(o) == SumSubtotal(items)

\* Order.total_price: sum(item.subtotal for item in self.items.all())
total_price(o) == SumSubtotal(OrderItems(o))

\* Sum(F('items__quantity') * F('items__product__price')) over the rows of
\* the join; None when there is no row
RECURSIVE Aggregate(_)
Aggregate(rows) ==
    IF rows = {} THEN 0
    ELSE LET x == CHOOSE y \in rows : TRUE
         IN  x.quantity * products[x.product] + Aggregate(rows \ {x})

\* Customer.total_spent: Order.objects.filter(customer=self).aggregate(...),
\* `total or 0`
total_spent(c) ==
    Aggregate({i \in items : \E o \in orders : o.id = i.order /\ o.customer = c})

\* ----------------------------------------------------- order requests

\* op, pc   : the handler and the method it runs next
\* order    : the id of the order the handler works on
\* customer : the customer of validated_data, or of the loaded instance
\* items, replace : the validated item list; replace says the body had one
\* k        : how many of the items the handler has created
\* old      : the ids of the items the order had when get_object loaded it
\* date     : the order_date of the loaded instance
\* resp     : the response's status code (0: none was sent)
\* errors   : the validation errors of a 400 response
IdleOReq ==
    [op |-> "idle", pc |-> "idle", order |-> NoId, customer |-> NoId,
     items |-> <<>>, replace |-> FALSE, k |-> 0, old |-> {}, date |-> NoDate,
     resp |-> 0, errors |-> {}]

OFree == oreq.pc \in {"idle", "done"}

ORespond(code) ==
    oreq' = [IdleOReq EXCEPT !.op = oreq.op, !.pc = "done", !.resp = code]

\* POST /api/orders/ (OrderViewSet, OrderSerializer)
OrderViewSet_create ==
    /\ OFree
    /\ oreq' = [IdleOReq EXCEPT !.op = "create", !.pc = "is_valid"]
    /\ UNCHANGED <<salesStore, jobVars, apiVars>>

\* PUT/PATCH /api/orders/{id}/
OrderViewSet_update(o) ==
    /\ OFree
    /\ oreq' = [IdleOReq EXCEPT !.op = "update", !.pc = "get_object", !.order = o]
    /\ UNCHANGED <<salesStore, jobVars, apiVars>>

\* get_object() over OrderViewSet.queryset: the row, or 404.
OrderViewSet_get_object ==
    /\ oreq.op = "update" /\ oreq.pc = "get_object"
    /\ IF \E x \in orders : x.id = oreq.order
       THEN oreq' = [oreq EXCEPT
                !.customer = (CHOOSE x \in orders : x.id = oreq.order).customer,
                !.old = {i.id : i \in OrderItems(oreq.order)},
                !.date = order_date[oreq.order],
                !.pc = "is_valid"]
       ELSE ORespond(404)
    /\ UNCHANGED <<salesStore, jobVars, apiVars>>

\* validate_quantity letting a quantity of zero through.
validate_quantity_nonnegative(value) == value >= 0

\* OrderItemSerializer.validate_quantity: `if value < 1: raise ValidationError`
validate_quantity(value) == value >= MinQuantity

\* OrderItemSerializer: 'product' is the primary key of a stored Product.
OrderItemSerializer_valid(d) ==
    d.product \in DOMAIN products /\ validate_quantity(d.quantity)

\* validate_items accepting every list.
validate_items_any(value) == TRUE

\* OrderSerializer.validate_items: `if not value` is an error.
validate_items(value) == Len(value) > 0

\* The errors serializer.errors holds for the body {customer: c, items: L}:
\* "customer" (not a stored customer, or required and missing), "required"
\* (items required and missing), "product" and "quantity" (errors of an
\* entry of the list) and "items" (validate_items, which runs when no entry
\* has an error).
OrderSerializer_errors(c, given, L) ==
    LET bad == {n \in 1..Len(L) : ~OrderItemSerializer_valid(L[n])}
    IN  (IF \/ c # NoId /\ c \notin customers
            \/ oreq.op = "create" /\ c = NoId
         THEN {"customer"} ELSE {})
        \cup (IF oreq.op = "create" /\ ~given THEN {"required"} ELSE {})
        \cup (IF given /\ \E n \in bad : L[n].product \notin DOMAIN products
              THEN {"product"} ELSE {})
        \cup (IF given /\ \E n \in bad : ~validate_quantity(L[n].quantity)
              THEN {"quantity"} ELSE {})
        \cup (IF given /\ bad = {} /\ ~validate_items(L) THEN {"items"} ELSE {})

\* The framework answers a ValidationError with 400 and the errors.
OReject(errs) ==
    oreq' = [IdleOReq EXCEPT !.op = oreq.op, !.pc = "done", !.resp = 400,
                             !.errors = errs]

\* The ids the handler will need are within the model's bounds.
WithinBounds(given, L) ==
    /\ oreq.op = "create" => nextOrderId <= MaxOrders
    /\ given => nextItemId + Len(L) - 1 <= MaxItems

\* serializer.is_valid(raise_exception=True) for the body
\* {customer: c, items: L}; c = NoId: no customer in the body, given = FALSE:
\* no items in the body (both are required unless the request is a PATCH).
OrderSerializer_is_valid(c, given, L) ==
    /\ oreq.op \in {"create", "update"} /\ oreq.pc = "is_valid"
    /\ WithinBounds(given, L)
    /\ IF OrderSerializer_errors(c, given, L) # {}
       THEN OReject(OrderSerializer_errors(c, given, L))
       ELSE oreq' = [oreq EXCEPT
                !.customer = IF c # NoId THEN c ELSE @,
                !.items = L, !.replace = given,
                !.pc = IF oreq.op = "create" THEN "create_order" ELSE "save"]
    /\ UNCHANGED <<salesStore, jobVars, apiVars>>

\* OrderSerializer.create: order = Order.objects.create(**validated_data)
OrderSerializer_create(c) ==
    /\ oreq.op = "create" /\ oreq.pc = "create_order" /\ oreq.customer = c
    /\ c \in customers
    /\ orders' = orders \cup {[id |-> nextOrderId, customer |-> c]}
    /\ order_date' = [o \in DOMAIN order_date \cup {nextOrderId} |->
                        IF o = nextOrderId THEN now ELSE order_date[o]]
    /\ nextOrderId' = nextOrderId + 1
    /\ oreq' = [oreq EXCEPT !.order = nextOrderId, !.pc = "create_items"]
    /\ UNCHANGED <<customers, customer_email, nextCustomerId, products, items, nextItemId, jobVars, nextProductId, apiVars>>

\* OrderSerializer.update without `if items_data is not None`: the items are
\* replaced whether or not the body had a list.
OrderSerializer_update_save_unguarded(o, c) ==
    /\ oreq.op = "update" /\ oreq.pc = "save"
    /\ oreq.order = o /\ oreq.customer = c
    /\ c \in customers
    /\ orders' = {x \in orders : x.id # o} \cup {[id |-> o, customer |-> c]}
    /\ order_date' = [x \in DOMAIN order_date \cup {o} |->
                        IF x \in DOMAIN order_date THEN order_date[x] ELSE oreq.date]
    /\ oreq' = [oreq EXCEPT !.pc = "delete_items"]
    /\ UNCHANGED <<customers, customer_email, nextCustomerId, products, items, nextOrderId, nextItemId, jobVars, nextProductId, apiVars>>

\* OrderSerializer.update: setattr(instance, attr, value); instance.save().
\* Model.save() writes the row: an UPDATE, or an INSERT under the same id when
\* the UPDATE matched no row.
OrderSerializer_update_save(o, c) ==
    /\ oreq.op = "update" /\ oreq.pc = "save"
    /\ oreq.order = o /\ oreq.customer = c
    /\ c \in customers
    /\ orders' = {x \in orders : x.id # o} \cup {[id |-> o, customer |-> c]}
    /\ order_date' = [x \in DOMAIN order_date \cup {o} |->
                        IF x \in DOMAIN order_date THEN order_date[x] ELSE oreq.date]
    /\ IF oreq.replace
       THEN oreq' = [oreq EXCEPT !.pc = "delete_items"]
       ELSE ORespond(200)
    /\ UNCHANGED <<customers, customer_email, nextCustomerId, products, items, nextOrderId, nextItemId, jobVars, nextProductId, apiVars>>

\* OrderSerializer.update without instance.items.all().delete(): the new
\* items are added to the old ones.
OrderSerializer_update_append(o) ==
    /\ oreq.op = "update" /\ oreq.pc = "delete_items" /\ oreq.order = o
    /\ oreq' = [oreq EXCEPT !.pc = "create_items"]
    /\ UNCHANGED <<salesStore, jobVars, apiVars>>

\* OrderSerializer.update: instance.items.all().delete()
OrderSerializer_update_delete(o) ==
    /\ oreq.op = "update" /\ oreq.pc = "delete_items" /\ oreq.order = o
    /\ items' = {i \in items : i.order # o}
    /\ oreq' = [oreq EXCEPT !.pc = "create_items"]
    /\ UNCHANGED <<customers, customer_email, nextCustomerId, products, orders, nextOrderId, nextItemId, jobVars, order_date, nextProductId, apiVars>>

\* The next row of `for item_data in items_data`
NewItem(o, d) ==
    [id |-> nextItemId, order |-> o, product |-> d.product, quantity |-> d.quantity]

\* OrderSerializer.create / update:
\* for item_data in items_data: OrderItem.objects.create(order=order, **item_data)
\* and, after the last one, the response (201 created, 200 updated).
OrderItem_create(o, d) ==
    /\ oreq.pc = "create_items" /\ oreq.order = o
    /\ oreq.k < Len(oreq.items) /\ d = oreq.items[oreq.k + 1]
    /\ \E x \in orders : x.id = o
    /\ d.product \in DOMAIN products
    /\ items' = items \cup {NewItem(o, d)}
    /\ nextItemId' = nextItemId + 1
    /\ IF oreq.k + 1 = Len(oreq.items)
       THEN ORespond(IF oreq.op = "create" THEN 201 ELSE 200)
       ELSE oreq' = [oreq EXCEPT !.k = @ + 1]
    /\ UNCHANGED <<customers, customer_email, nextCustomerId, products, orders, nextOrderId, jobVars, order_date, nextProductId, apiVars>>

\* A write of the handler violates a foreign key (the customer, the order or
\* the product was deleted since the handler read it): IntegrityError, which
\* nothing catches.  The rows the handler wrote before stay.
OrderSerializer_IntegrityError ==
    /\ \/ /\ oreq.pc \in {"create_order", "save"}
          /\ oreq.customer \notin customers
       \/ /\ oreq.pc = "create_items"
          /\ \/ ~\E x \in orders : x.id = oreq.order
             \/ oreq.items[oreq.k + 1].product \notin DOMAIN products
    /\ ORespond(500)
    /\ UNCHANGED <<salesStore, jobVars, apiVars>>

\* The worker dies between two statements of the handler (autocommit: what it
\* wrote is committed).
Crash ==
    /\ ~OFree
    /\ ORespond(0)
    /\ UNCHANGED <<salesStore, jobVars, apiVars>>

\* DELETE /api/orders/{id}/: OrderItem.order on_delete=CASCADE
OrderViewSet_destroy(o) ==
    /\ \E x \in orders : x.id = o
    /\ orders' = {x \in orders : x.id # o}
    /\ order_date' = [x \in DOMAIN order_date \ {o} |-> order_date[x]]
    /\ items' = {i \in items : i.order # o}
    /\ UNCHANGED <<customers, customer_email, nextCustomerId, products, nextOrderId, nextItemId, oreq, jobVars, nextProductId, apiVars>>

\* The check letting a price of zero through.
validate_price_nonnegative(value) == value >= 0

\* ProductSerializer.validate_price: `if value <= 0: raise ValidationError`
validate_price(value) == value > 0

\* Products a window of requests creates on top of the registered ones
MaxNewProducts == 2

\* POST /api/products/ with a price that passes validation
ProductViewSet_create(price) ==
    /\ nextProductId <= MaxProducts + MaxNewProducts
    /\ validate_price(price)
    /\ products' = (nextProductId :> price) @@ products
    /\ nextProductId' = nextProductId + 1
    /\ UNCHANGED <<customers, customer_email, nextCustomerId, orders, items, nextOrderId, nextItemId, oreq, jobVars, order_date, apiVars>>

\* POST /api/products/: validate_price raises, is_valid(raise_exception=True)
\* answers 400 and perform_create is not reached
ProductViewSet_create_ValidationError(price) ==
    /\ ~validate_price(price)
    /\ report = IdleReport
    /\ report' = [op |-> "product", method |-> "POST", id |-> NoId,
                  price |-> price, status |-> 400]
    /\ UNCHANGED <<salesStore, oreq, now, jobVars>>

\* PUT/PATCH /api/products/{id}/ with a price that passes validation
ProductViewSet_update(p, price) ==
    /\ p \in DOMAIN products
    /\ validate_price(price)
    /\ products' = [products EXCEPT ![p] = price]
    /\ UNCHANGED <<customers, customer_email, nextCustomerId, orders, items, nextOrderId, nextItemId, oreq, jobVars, order_date, nextProductId, apiVars>>

\* PUT/PATCH /api/products/{id}/: validate_price raises, the response is 400
\* and perform_update is not reached
ProductViewSet_update_ValidationError(p, price) ==
    /\ p \in DOMAIN products
    /\ ~validate_price(price)
    /\ report = IdleReport
    /\ report' = [op |-> "product", method |-> "PUT", id |-> p,
                  price |-> price, status |-> 400]
    /\ UNCHANGED <<salesStore, oreq, now, jobVars>>

\* DELETE /api/products/{id}/: OrderItem.product on_delete=CASCADE
ProductViewSet_destroy(p) ==
    /\ p \in DOMAIN products
    /\ products' = [x \in DOMAIN products \ {p} |-> products[x]]
    /\ items' = {i \in items : i.product # p}
    /\ UNCHANGED <<customers, customer_email, nextCustomerId, orders, nextOrderId, nextItemId, oreq, jobVars, order_date, nextProductId, apiVars>>

\* ---- rejected account requests

\* POST /api/applicants/: the UniqueValidator finds a row with the address
\* of the body and the framework answers 400.
ApplicantViewSet_create_ValidationError(e) ==
    /\ EmailRows(applicant_email, e) # {}
    /\ report = IdleReport
    /\ report' = [op |-> "applicant", email |-> e, status |-> 400]
    /\ UNCHANGED <<salesStore, oreq, now, jobVars>>

\* POST /api/applicants/: the address of the body is nobody's, the lowered
\* address is somebody's: the INSERT violates the UNIQUE index on email and
\* raises IntegrityError, which ModelViewSet.create does not catch.
ApplicantViewSet_create_IntegrityError(e) ==
    /\ EmailRows(applicant_email, e) = {}
    /\ EmailRows(applicant_email, validate_email(e)) # {}
    /\ report = IdleReport
    /\ report' = [op |-> "applicant", email |-> e, status |-> 500]
    /\ UNCHANGED <<salesStore, oreq, now, jobVars>>

\* Customers a window of requests creates on top of the registered ones
MaxNewCustomers == 1

\* POST /api/customers/ with the address e: CustomerSerializer has no
\* validate_email; the UniqueValidator of the field looks the address up and
\* the INSERT writes it as it came.
CustomerViewSet_create(e) ==
    /\ nextCustomerId <= MaxCustomers + MaxNewCustomers
    /\ EmailRows(customer_email, e) = {}
    /\ customers' = customers \cup {nextCustomerId}
    /\ customer_email' = (nextCustomerId :> e) @@ customer_email
    /\ nextCustomerId' = nextCustomerId + 1
    /\ UNCHANGED <<products, orders, items, nextOrderId, nextItemId, oreq, jobVars, order_date, nextProductId, apiVars>>

\* POST /api/customers/: the UniqueValidator finds a row with the address of
\* the body and the framework answers 400.
CustomerViewSet_create_ValidationError(e) ==
    /\ EmailRows(customer_email, e) # {}
    /\ report = IdleReport
    /\ report' = [op |-> "customer", email |-> e, status |-> 400]
    /\ UNCHANGED <<salesStore, oreq, now, jobVars>>

\* DELETE /api/customers/{id}/: Order.customer on_delete=CASCADE, and the
\* orders' items with them
CustomerViewSet_destroy(c) ==
    /\ c \in customers
    /\ customers' = customers \ {c}
    /\ customer_email' = [x \in DOMAIN customer_email \ {c} |-> customer_email[x]]
    /\ nextCustomerId' = nextCustomerId
    /\ orders' = {x \in orders : x.customer # c}
    /\ order_date' = [x \in {y.id : y \in orders'} |-> order_date[x]]
    /\ items' = {i \in items : \E x \in orders : x.id = i.order /\ x.customer # c}
    /\ UNCHANGED <<products, nextOrderId, nextItemId, oreq, jobVars, nextProductId, apiVars>>

\* ------------------------------------------------- analytics (views.py)

\* [:5] of top_customers and top_products
TopN == 5

\* filter(order_date__gte=from_date), filter(order_date__lte=to_date):
\* order_date is a DateTimeField, and the date the parameter gives is
\* converted to the datetime of that day's midnight.
Midnight(day) == day * TicksPerDay

\* `if from_date:` / `if to_date:` and the two filters on an order's date
date_filter(t, from, to) ==
    /\ from # NoDate => t >= Midnight(from)
    /\ to # NoDate => t <= Midnight(to)

\* orders = Order.objects.all() with the date filters applied
FilteredOrders(from, to) ==
    {o \in orders : date_filter(order_date[o.id], from, to)}

\* The join losing its condition on the order: every OrderItem row.
JoinedItems_unconditional(os) == items

\* The OrderItem rows joined to the orders `os`
JoinedItems(os) == {i \in items : \E o \in os : o.id = i.order}

\* Coalesce(Sum('quantity'), 0) over the rows
RECURSIVE SumQuantity(_)
SumQuantity(rows) ==
    IF rows = {} THEN 0
    ELSE LET x == CHOOSE y \in rows : TRUE
         IN  x.quantity + SumQuantity(rows \ {x})

\* The rows of a table in the order of a scan of its primary key, forward
\* or backward: ORDER BY leaves the order of rows with equal keys to the
\* database, and the rows reach the sort in the order of the scan.
ScanOrders == {"forward", "backward"}

RECURSIVE Forward(_)
Forward(ids) ==
    IF ids = {} THEN <<>>
    ELSE LET m == CHOOSE x \in ids : \A y \in ids : x <= y
         IN  <<m>> \o Forward(ids \ {m})

RECURSIVE Backward(_)
Backward(ids) ==
    IF ids = {} THEN <<>>
    ELSE LET m == CHOOSE x \in ids : \A y \in ids : x >= y
         IN  <<m>> \o Backward(ids \ {m})

Scan(ids, scan) == IF scan = "forward" THEN Forward(ids) ELSE Backward(ids)

\* The sort of ORDER BY key DESC: x goes behind the rows whose key is not
\* smaller.
RECURSIVE SortInsert(_, _, _)
SortInsert(s, x, key) ==
    IF s = <<>> THEN <<x>>
    ELSE IF key[Head(s)] >= key[x]
         THEN <<Head(s)>> \o SortInsert(Tail(s), x, key)
         ELSE <<x>> \o s

\* order_by('-key') of the rows s
RECURSIVE order_by_desc(_, _)
order_by_desc(s, key) ==
    IF s = <<>> THEN <<>>
    ELSE SortInsert(order_by_desc(SubSeq(s, 1, Len(s) - 1), key), s[Len(s)], key)

\* The queryset without its slice: every row.
Slice_unbounded(s, n) == s

\* queryset[:n]
Slice(s, n) == SubSeq(s, 1, IF Len(s) < n THEN Len(s) ELSE n)

\* values('customer').count() without distinct(): one per order.
distinct_customers_per_order(os) == Cardinality(os)

\* orders.values('customer').distinct().count()
distinct_customers(os) == Cardinality({o.customer : o \in os})

\* GET /api/analytics/sales-summary/?from=&to=
sales_summary(from, to) ==
    /\ report = IdleReport
    /\ report' =
          LET matched == FilteredOrders(from, to)
          IN  [op |-> "sales_summary", status |-> 200, from |-> from, to |-> to,
               total_sales |-> Aggregate(JoinedItems(matched)),
               total_orders |-> Cardinality(matched),
               total_customers |-> distinct_customers(matched),
               total_products_sold |-> SumQuantity(JoinedItems(matched))]
    /\ UNCHANGED <<salesStore, oreq, now, jobVars>>

\* customers.filter(**order_filter): with a date the join to the orders is
\* an inner join and keeps the customers that have a matched order; with no
\* date there is no filter, and annotate() joins the orders by a left join
\* that keeps every customer.
CustomerRows(from, to) ==
    IF from = NoDate /\ to = NoDate THEN customers
    ELSE {o.customer : o \in FilteredOrders(from, to)}

\* annotate(total_spent=Coalesce(Sum(F('orders__items__quantity') *
\* F('orders__items__product__price')), 0)) over the joined orders
AnnotatedSpent(from, to) ==
    [c \in CustomerRows(from, to) |->
        Aggregate(JoinedItems({o \in FilteredOrders(from, to) : o.customer = c}))]

\* GET /api/analytics/top-customers/?from=&to=.  The database answers the
\* query with the rows `top`.  For each row the queryset builds a Customer
\* and sets the annotation on it, setattr(obj, 'total_spent', value);
\* Customer.total_spent is a property without a setter, so the first row
\* raises AttributeError, which nothing catches: the answer is 500 and
\* carries no list.  Only a query without rows is answered with a list.
top_customers(from, to, scan) ==
    /\ report = IdleReport
    /\ report' =
          LET spent == AnnotatedSpent(from, to)
              top == Slice(order_by_desc(Scan(DOMAIN spent, scan), spent), TopN)
          IN  [op |-> "top_customers",
               status |-> IF top = <<>> THEN 200 ELSE 500,
               from |-> from, to |-> to, rows |-> <<>>]
    /\ UNCHANGED <<salesStore, oreq, now, jobVars>>

\* The OrderItem rows of product p, of whatever order.
ProductItems_all_orders(p, from, to) == {i \in items : i.product = p}

\* The OrderItem rows of product p joined to the matched orders
ProductItems(p, from, to) ==
    {i \in JoinedItems(FilteredOrders(from, to)) : i.product = p}

\* products.filter(**order_filter): as for the customers, an inner join to
\* the items of the matched orders with a date, every product without.
ProductRows(from, to) ==
    IF from = NoDate /\ to = NoDate THEN DOMAIN products
    ELSE {p \in DOMAIN products : ProductItems(p, from, to) # {}}

\* GET /api/analytics/top-products/?from=&to=:
\* annotate(total_quantity_sold=Coalesce(Sum('orderitem__quantity'), 0),
\*          total_revenue=Coalesce(Sum(F('orderitem__quantity') * F('price')), 0))
top_products(from, to, scan) ==
    /\ report = IdleReport
    /\ report' =
          LET sold == [p \in ProductRows(from, to) |->
                         SumQuantity(ProductItems(p, from, to))]
              top == Slice(order_by_desc(Scan(DOMAIN sold, scan), sold), TopN)
          IN  [op |-> "top_products", status |-> 200, from |-> from, to |-> to,
               rows |-> [n \in 1..Len(top) |->
                           [id |-> top[n],
                            price |-> products[top[n]],
                            total_quantity_sold |-> sold[top[n]],
                            total_revenue |-> Aggregate(ProductItems(top[n], from, to))]]]
    /\ UNCHANGED <<salesStore, oreq, now, jobVars>>

\* GET /api/orders/?customer=&from=&to=: OrderViewSet.get_queryset
OrderViewSet_list(c, from, to) ==
    /\ report = IdleReport
    /\ report' =
          [op |-> "orders", status |-> 200, customer |-> c, from |-> from, to |-> to,
           ids |-> {o.id : o \in {x \in FilteredOrders(from, to) :
                                      c # NoId => x.customer = c}}]
    /\ UNCHANGED <<salesStore, oreq, now, jobVars>>

\* ------------------------------------------------------ specifications

\* The job store after migration: no rows.
JobInit ==
    /\ applicants = {} /\ jobs = {} /\ applications = {}
    /\ applicant_email = <<>>
    /\ nextApplicantId = 1 /\ nextJobId = 1 /\ nextApplicationId = 1
    /\ req = [r \in Slots |-> IdleReq]

\* The sales store once the customers and the products are registered
\* (POST /api/customers/, POST /api/products/), before the first order.
SalesInit ==
    /\ customers = CustomerIds
    /\ customer_email = [c \in CustomerIds |-> Address(c)]
    /\ nextCustomerId = MaxCustomers + 1
    /\ products = [p \in ProductIds |-> ListPrice]
    /\ orders = {} /\ items = {}
    /\ nextOrderId = 1 /\ nextItemId = 1
    /\ oreq = IdleOReq
    /\ order_date = <<>>
    /\ nextProductId = MaxProducts + 1
    /\ now \in {t \in Instants : \A u \in Instants : u <= t}
    /\ report = IdleReport

Init == JobInit /\ SalesInit

\* One step of the handler in slot r, as it goes when no other request
\* wrote between the handler's steps.
JobStep(r) ==
    \/ validate_applicant_id(r)
    \/ validate_job_id(r)
    \/ ApplySerializer_validate(r)
    \/ ApplySerializer_create_get(r)
    \/ ApplySerializer_create(r)
    \/ ApplicationViewSet_get_object(r)
    \/ ApplicationSerializer_unique_together(r)
    \/ ApplicationSerializer_validate(r)
    \/ ApplicationViewSet_perform_create(r)
    \/ ApplicationViewSet_perform_update(r)

\* The outcomes of a step that only a concurrent write brings about.
JobRace(r) ==
    \/ ApplySerializer_DoesNotExist(r)
    \/ ApplySerializer_create_IntegrityError(r)
    \/ ApplicationViewSet_create_except(r)
    \/ ApplicationViewSet_perform_update_IntegrityError(r)

\* The requests that are a single statement or a single transaction.
JobAtomic ==
    \/ ApplicantViewSet_create(Address(nextApplicantId))
    \/ JobViewSet_create
    \/ \E a \in ApplicantIds : ApplicantViewSet_destroy(a)
    \/ \E j \in JobIds : JobViewSet_destroy(j)
    \/ \E id \in ApplicationIds : ApplicationViewSet_destroy(id)

\* Requests interleave.  The bodies are the ones that matter to the pair
\* (applicant, job): none carries a status.
JobNext ==
    \/ \E r \in Slots :
         \/ \E a \in ApplicantIds, j \in JobIds : apply_for_job(r, a, j)
         \/ ApplicationViewSet_create(r)
         \/ \E id \in ApplicationIds : ApplicationViewSet_update(r, id)
         \/ \E a \in ApplicantIds \cup {NoId}, j \in JobIds \cup {NoId} :
                ApplicationSerializer_fields(r, a, j, NoStatus)
         \/ JobStep(r)
         \/ JobRace(r)
    \/ JobAtomic

JobSpec == Init /\ [][JobNext]_vars

\* One request at a time, in slot 1, with every body.
SeqSlot == CHOOSE r \in Slots : \A q \in Slots : r <= q
AllFree == \A r \in Slots : Free(r)

JobSeqNext ==
    \/ \E a \in ApplicantIds, j \in JobIds : apply_for_job(SeqSlot, a, j)
    \/ ApplicationViewSet_create(SeqSlot)
    \/ \E id \in ApplicationIds : ApplicationViewSet_update(SeqSlot, id)
    \/ \E a \in ApplicantIds \cup {NoId}, j \in JobIds \cup {NoId},
          s \in StatusInputs \cup {NoStatus} :
           ApplicationSerializer_fields(SeqSlot, a, j, s)
    \/ JobStep(SeqSlot)
    \/ AllFree /\ ApplicantViewSet_create(Address(nextApplicantId))
    \/ AllFree /\ JobViewSet_create
    \/ AllFree /\ \E a \in ApplicantIds : ApplicantViewSet_destroy(a)
    \/ AllFree /\ \E j \in JobIds : JobViewSet_destroy(j)
    \/ AllFree /\ \E id \in ApplicationIds : ApplicationViewSet_destroy(id)

JobSeqSpec == Init /\ [][JobSeqNext]_vars

\* The order handler's steps, as they go when no other request wrote between
\* them.
SalesStep ==
    \/ OrderViewSet_create
    \/ \E o \in OrderIds : OrderViewSet_update(o)
    \/ OrderViewSet_get_object
    \/ \E c \in CustomerIds, L \in ItemLists : OrderSerializer_is_valid(c, TRUE, L)
    \/ \E c \in CustomerIds \cup {NoId} : OrderSerializer_is_valid(c, FALSE, <<>>)
    \/ \E L \in ItemLists : OrderSerializer_is_valid(NoId, TRUE, L)
    \/ \E c \in CustomerIds : OrderSerializer_create(c)
    \/ \E o \in OrderIds, c \in CustomerIds : OrderSerializer_update_save(o, c)
    \/ \E o \in OrderIds : OrderSerializer_update_delete(o)
    \/ \E o \in OrderIds, d \in ItemData : OrderItem_create(o, d)

SalesNext ==
    \/ SalesStep
    \/ OrderSerializer_IntegrityError
    \/ Crash
    \/ \E o \in OrderIds : OrderViewSet_destroy(o)
    \/ \E p \in ProductIds, price \in Prices : ProductViewSet_update(p, price)
    \/ \E p \in ProductIds : ProductViewSet_destroy(p)
    \/ \E c \in CustomerIds : CustomerViewSet_destroy(c)

SalesSpec == Init /\ [][SalesNext]_vars

SalesSeqNext ==
    \/ SalesStep
    \/ OFree /\ \E o \in OrderIds : OrderViewSet_destroy(o)
    \/ OFree /\ \E p \in ProductIds, price \in Prices : ProductViewSet_update(p, price)
    \/ OFree /\ \E p \in ProductIds : ProductViewSet_destroy(p)
    \/ OFree /\ \E c \in CustomerIds : CustomerViewSet_destroy(c)

SalesSeqSpec == Init /\ [][SalesSeqNext]_vars

\* ---- authentication (settings.py, permission_classes of the views)

\* The routes of the two projects
JobEndpoints == {"applicants", "jobs", "applications", "apply"}
SalesEndpoints ==
    {"customers", "products", "orders", "sales_summary", "top_customers", "top_products"}
Endpoints == JobEndpoints \cup SalesEndpoints

\* A view that states no permission of its own: open to everyone.
permission_classes_AllowAny(e) ==
    IF e \in {"apply", "sales_summary"} THEN {"AllowAny"} ELSE {"IsAuthenticated"}

\* permission_classes = [IsAuthenticated] of every viewset, and the
\* decorator @permission_classes([IsAuthenticated]) of apply_for_job,
\* sales_summary, top_customers and top_products
permission_classes(e) == {"IsAuthenticated"}

\* REST_FRAMEWORK['DEFAULT_AUTHENTICATION_CLASSES'] of the job project
job_authentication_classes == <<"JWTAuthentication">>

\* The same setting of the sales project, which routes the same JWT token
\* views (api/token/) and answers 401 to requests without credentials.
sales_authentication_classes == <<"JWTAuthentication">>

authentication_classes(e) ==
    IF e \in JobEndpoints THEN job_authentication_classes
    ELSE sales_authentication_classes

\* The WWW-Authenticate header of the first authentication class:
\* JWTAuthentication gives 'Bearer realm="api"'.  With a header a denied
\* request without credentials is answered 401, without one 403.
authenticate_header(e) ==
    /\ authentication_classes(e) # <<>>
    /\ Head(authentication_classes(e)) = "JWTAuthentication"

\* A request without credentials to endpoint e.  The permissions are
\* checked before the handler is called: a denied request ends here, with
\* the error and no data; a request that no permission denies goes on to
\* the handler, which answers with its data.
Unauthenticated(e) ==
    /\ report = IdleReport
    /\ report' =
          IF "IsAuthenticated" \in permission_classes(e)
          THEN [op |-> "anonymous", endpoint |-> e,
                status |-> IF authenticate_header(e) THEN 401 ELSE 403,
                data |-> FALSE]
          ELSE [op |-> "anonymous", endpoint |-> e, status |-> 200, data |-> TRUE]
    /\ UNCHANGED <<salesStore, oreq, now, jobVars>>

\* The response is sent and the worker takes the next read-only request.
ReportSent ==
    /\ report # IdleReport
    /\ report' = IdleReport
    /\ UNCHANGED <<salesStore, oreq, now, jobVars>>

\* ---- stores for the reports

\* The reports are read-only: ReportSpec starts from a store that the
\* requests above have filled and applies the reports to it.
MaxReportOrders == 2
MaxReportItems == 2

\* One customer and one product more than a top list holds.
ReportIds == 1..(TopN + 1)

\* Every other product was repriced from the list price.
ReportPrices ==
    [p \in ReportIds |->
        IF p % 2 = 0 THEN CHOOSE x \in Prices : x # ListPrice ELSE ListPrice]

\* The orders were created one after the other: the dates do not decrease.
DateLists(n) ==
    {d \in [1..n -> Instants] : \A k \in 1..n : k > 1 => d[k - 1] <= d[k]}

\* A store of up to MaxReportOrders orders of the first two customers,
\* with up to MaxReportItems items of the first two products among them.
FewOrders ==
    UNION {
      {[orders |-> {[id |-> k, customer |-> cs[k]] : k \in 1..n},
        dates |-> d,
        items |-> {[id |-> k, order |-> L[k].order, product |-> L[k].product,
                    quantity |-> L[k].quantity] : k \in 1..Len(L)}] :
          cs \in {f \in [1..n -> 1..2] : n > 0 => f[1] = 1},
          d \in DateLists(n),
          L \in UNION {[1..m -> [order : 1..n, product : 1..2,
                                 quantity : MinQuantity..MaxQuantity]] :
                          m \in 0..MaxReportItems}} :
      n \in 0..MaxReportOrders}

\* A store where every customer has one order, of one item of the product
\* with the customer's number, all placed at the same instant.
ManyOrders ==
    {[orders |-> {[id |-> k, customer |-> k] : k \in ReportIds},
      dates |-> [k \in ReportIds |-> t],
      items |-> {[id |-> k, order |-> k, product |-> k, quantity |-> q[k]] :
                   k \in ReportIds}] :
        q \in [ReportIds -> MinQuantity..MaxQuantity], t \in {Midnight(0), Midnight(0) + 1}}

ReportInit ==
    /\ JobInit
    /\ customers = ReportIds
    /\ customer_email = [c \in ReportIds |-> Address(c)]
    /\ nextCustomerId = TopN + 2
    /\ products = ReportPrices
    /\ nextProductId = TopN + 2
    /\ \E st \in FewOrders \cup ManyOrders :
         /\ orders = st.orders
         /\ order_date = st.dates
         /\ items = st.items
         /\ nextOrderId = Cardinality(st.orders) + 1
         /\ nextItemId = Cardinality(st.items) + 1
    /\ oreq = IdleOReq
    /\ now \in {t \in Instants : \A u \in Instants : u <= t}
    /\ report = IdleReport

DateInputs == Days \cup {NoDate}

ReportNext ==
    \/ \E from \in DateInputs, to \in DateInputs : sales_summary(from, to)
    \/ \E from \in DateInputs, to \in DateInputs, scan \in ScanOrders :
         top_customers(from, to, scan)
    \/ \E from \in DateInputs, to \in DateInputs, scan \in ScanOrders :
         top_products(from, to, scan)
    \/ \E c \in {NoId, 1}, from \in DateInputs, to \in DateInputs :
         OrderViewSet_list(c, from, to)
    \/ \E e \in Endpoints : Unauthenticated(e)
    \/ ReportSent

ReportSpec == ReportInit /\ [][ReportNext]_vars

\* ---- product requests

\* The prices a request body can carry: the valid ones, zero and a negative
\* one.
PriceInputs == Prices \cup {0, 0 - ListPrice}

AllProductIds == 1..(MaxProducts + MaxNewProducts)

ProductNext ==
    \/ \E price \in PriceInputs : ProductViewSet_create(price)
    \/ \E price \in PriceInputs : ProductViewSet_create_ValidationError(price)
    \/ \E p \in AllProductIds, price \in PriceInputs : ProductViewSet_update(p, price)
    \/ \E p \in AllProductIds, price \in PriceInputs :
         ProductViewSet_update_ValidationError(p, price)
    \/ \E p \in AllProductIds : ProductViewSet_destroy(p)
    \/ ReportSent

ProductSpec == Init /\ [][ProductNext]_vars

\* ---- the two projects

\* Each project has its own store and its own process: a run exercises one
\* of them while the other stays as it was set up, the job project with its
\* requests interleaved, the sales project one request at a time.
ProjectsNext ==
    \/ SalesInit /\ JobNext
    \/ JobInit /\ SalesSeqNext

ProjectsSpec == Init /\ [][ProjectsNext]_vars

\* ---- account requests

\* Applicants and customers register, with every address, and are deleted.
EmailNext ==
    \/ \E e \in Emails : ApplicantViewSet_create(e)
    \/ \E e \in Emails : ApplicantViewSet_create_ValidationError(e)
    \/ \E e \in Emails : ApplicantViewSet_create_IntegrityError(e)
    \/ \E a \in ApplicantIds : ApplicantViewSet_destroy(a)
    \/ \E e \in Emails : CustomerViewSet_create(e)
    \/ \E e \in Emails : CustomerViewSet_create_ValidationError(e)
    \/ \E c \in 1..(MaxCustomers + MaxNewCustomers) : CustomerViewSet_destroy(c)
    \/ ReportSent

EmailSpec == Init /\ [][EmailNext]_vars

\* ============================================================= properties

\* ---- C1
\* C1: in every reachable state, under every interleaving of the create,
\* apply, update and delete requests, no two stored Application rows hold the
\* same (applicant, job) pair.
C1_UniqueApplicantJob ==
    \A x, y \in applications :
        (x.applicant = y.applicant /\ x.job = y.job) => x = y

\* A handler stands before its INSERT of a pair that another request stored
\* since the handler's pre-check: only the constraint is left to refuse it.
C1_Witness ==
    \E r \in Slots :
        /\ req[r].pc \in {"insert", "perform_create"}
        /\ ApplicationExists(req[r].row.applicant, req[r].row.job)

\* ---- C2
\* The handler in slot r creates an Application (either endpoint) for a pair
\* that a stored Application already holds.
DuplicateAttempt(r) ==
    /\ req[r].op \in {"apply", "create"} /\ ~Free(r)
    /\ req[r].row.applicant # NoId /\ req[r].row.job # NoId
    /\ ApplicationExists(req[r].row.applicant, req[r].row.job)

\* C2: when an Application already exists for a pair, a further attempt to
\* create one for that pair, through POST /api/applications/ or through
\* POST /api/apply/, never gets to its INSERT, ends with status 400 and an
\* 'error' entry in the body, and leaves the set of stored Applications as
\* it was.
C2_DuplicateRejected ==
    [][\A r \in Slots :
         DuplicateAttempt(r) =>
             /\ applications' = applications
             /\ req'[r].pc \notin {"create", "insert", "perform_create"}
             /\ req'[r].pc = "done" =>
                    req'[r].resp = 400 /\ req'[r].body = "error"]_vars

\* POST /api/apply/ for a pair that has an Application was answered 400 with
\* an 'error' entry, and the Application is still the only one.
C2_Witness ==
    \E r \in Slots :
        /\ req[r].op = "apply" /\ req[r].pc = "done"
        /\ req[r].resp = 400 /\ req[r].body = "error"
        /\ applicants # {} /\ jobs # {}
        /\ Cardinality(applications) = 1

\* ---- C3
\* C3: of two concurrent POST /api/apply/ for the same pair that both passed
\* the duplicate pre-check, the one whose INSERT comes second leaves the store
\* with the one Application and is answered 400 with the duplicate-
\* application error, never with an unhandled server error.
C3_RaceLoserAnswered400 ==
    [][\A r \in Slots :
         (/\ req[r].op = "apply" /\ req[r].pc = "insert"
          /\ ApplicationExists(req[r].row.applicant, req[r].row.job)
          /\ req'[r].pc = "done")
         => /\ applications' = applications
            /\ req'[r].resp = 400 /\ req'[r].body = "error"]_vars

\* ---- C4
\* C4: POST /api/apply/ for a stored applicant and a stored job with no
\* Application between them changes no row until its INSERT and ends with
\* status 201, the success message and the created record; the store then has
\* exactly one more Application, for that applicant and that job with status
\* 'applied', and every other row as before.
C4_ApplySucceeds ==
    [][\A r \in Slots :
         (/\ req[r].op = "apply" /\ ~Free(r)
          /\ ForeignKeysHold(req[r].row.applicant, req[r].row.job)
          /\ ~ApplicationExists(req[r].row.applicant, req[r].row.job))
         => IF req'[r].pc = "done"
            THEN /\ req'[r].resp = 201 /\ req'[r].body = "message"
                 /\ \E x \in applications' \ applications :
                      /\ applications' = applications \cup {x}
                      /\ x.applicant = req[r].row.applicant
                      /\ x.job = req[r].row.job
                      /\ x.status = "applied"
                 /\ applicants' = applicants /\ jobs' = jobs
            ELSE UNCHANGED storeVars]_vars

\* POST /api/apply/ was answered 201 and its Application is stored beside an
\* older one.
C4_Witness ==
    \E r \in Slots :
        /\ req[r].op = "apply" /\ req[r].pc = "done"
        /\ req[r].resp = 201 /\ req[r].body = "message"
        /\ Cardinality(applications) = 2
        /\ \E x \in applications :
              x.id = nextApplicationId - 1 /\ x.status = "applied"

\* ---- C5
\* C5: POST /api/apply/ with an applicant_id or a job_id that names no stored
\* row ends with status 400, never reaches the duplicate check or the INSERT,
\* and changes no row.
C5_UnknownIdRejected ==
    [][\A r \in Slots :
         (/\ req[r].op = "apply" /\ ~Free(r)
          /\ ~ForeignKeysHold(req[r].row.applicant, req[r].row.job))
         => /\ UNCHANGED storeVars
            /\ req'[r].pc \notin {"validate", "create", "insert"}
            /\ req'[r].pc = "done" => req'[r].resp = 400]_vars

\* POST /api/apply/ was answered 400 where an applicant is stored and no job
\* is: its job_id named no stored row.
C5_Witness ==
    \E r \in Slots :
        /\ req[r].op = "apply" /\ req[r].pc = "done" /\ req[r].resp = 400
        /\ applicants # {} /\ jobs = {} /\ applications = {}

\* ---- C6
\* C6: an order creation for n items that has ended, by its response, by the
\* failure of a write or by a crash of the worker, leaves either the Order
\* row with all n of its OrderItem rows or neither the Order row nor any of
\* its items.
C6_CreateAllOrNothing ==
    [][(oreq.op = "create" /\ ~OFree /\ oreq'.pc = "done") =>
         LET o == IF oreq.order # NoId THEN oreq.order ELSE nextOrderId
             written == {i \in items' : i.order = o}
         IN  \/ (~\E x \in orders' : x.id = o) /\ written = {}
             \/ /\ \E x \in orders' : x.id = o
                /\ Cardinality(written) = Len(oreq.items)]_vars

\* ---- C7
\* How many entries of the list L are the entry d.
Multiplicity(L, d) == Cardinality({n \in 1..Len(L) : L[n] = d})

\* C7: an order update whose body has an item list touches the items of no
\* other order and ends with status 200 and the order's items being exactly
\* the entries of the list, each as often as the list has it, none of them a
\* row the order had before the update.
C7_ItemsReplaced ==
    [][(/\ oreq.op = "update" /\ oreq.pc \in {"save", "delete_items", "create_items"}
        /\ oreq.replace)
       => /\ \A i \in items \cup items' :
                i.order # oreq.order => (i \in items /\ i \in items')
          /\ oreq'.pc = "done" =>
                /\ oreq'.resp = 200
                /\ \A d \in ItemData :
                      Cardinality({i \in items' : /\ i.order = oreq.order
                                                  /\ i.product = d.product
                                                  /\ i.quantity = d.quantity})
                          = Multiplicity(oreq.items, d)
                /\ \A i \in items' : i.order = oreq.order => i.id \notin oreq.old]_vars

\* An update replacing the items of an order that had some, by a list of two
\* entries, has deleted and has written the first entry.
C7_Witness ==
    /\ oreq.op = "update" /\ oreq.pc = "create_items" /\ oreq.replace
    /\ oreq.old # {} /\ Len(oreq.items) = 2 /\ oreq.k = 1
    /\ Cardinality(OrderItems(oreq.order)) = 1

\* ---- C8
\* C8: an order update whose body has no item list changes no row before its
\* save, and its save, which ends it with status 200, leaves every OrderItem
\* row, every other Order row, the customers and the products as they were:
\* the Order row gets the customer of the body, or keeps its own.
C8_ItemsKept ==
    [][/\ (oreq.op = "update" /\ oreq.pc \in {"get_object", "is_valid"})
          => UNCHANGED salesStore
       /\ (oreq.op = "update" /\ oreq.pc = "save" /\ ~oreq.replace)
          => /\ items' = items
             /\ customers' = customers /\ products' = products
             /\ orders' = {x \in orders : x.id # oreq.order} \cup
                            {[id |-> oreq.order, customer |-> oreq.customer]}
             /\ Cardinality(orders') = Cardinality(orders)
             /\ oreq'.pc = "done" /\ oreq'.resp = 200]_vars

\* An update without item list that moves an order with two items to another
\* customer is about to save.
C8_Witness ==
    /\ oreq.op = "update" /\ oreq.pc = "save" /\ ~oreq.replace
    /\ Cardinality(OrderItems(oreq.order)) = 2
    /\ \E x \in orders : x.id = oreq.order /\ x.customer # oreq.customer

\* ---- C9
\* f[1] + ... + f[n]
RECURSIVE SumTo(_, _)
SumTo(f, n) == IF n = 0 THEN 0 ELSE f[n] + SumTo(f, n - 1)

\* The quantity the OrderItem row with id n adds for product p to the rows
\* `rows` (0 when it is not one of them).
QuantityAt(rows, p, n) ==
    IF \E i \in rows : i.id = n /\ i.product = p
    THEN (CHOOSE i \in rows : i.id = n /\ i.product = p).quantity
    ELSE 0

\* The units of product p in the rows `rows`.
Units(rows, p) ==
    SumTo([n \in 1..(nextItemId - 1) |-> QuantityAt(rows, p, n)], nextItemId - 1)

\* Units of each product times its price, summed over the products.
Worth(rows) ==
    LET ps == DOMAIN products
        f == [n \in 1..(nextProductId - 1) |->
                IF n \in ps THEN Units(rows, n) * products[n] ELSE 0]
    IN  SumTo(f, nextProductId - 1)

\* quantity times price, summed over the entries of the list L
ListWorth(L) ==
    SumTo([n \in 1..Len(L) |-> L[n].quantity * products[L[n].product]], Len(L))

\* C9: the total_price of every order is the sum of quantity times the
\* product's price over the items the order has now, 0 when it has none; and
\* when an update that replaces the items ends, it is that sum over the
\* body's list alone.
C9_TotalPrice ==
    /\ [](\A o \in orders :
            /\ total_price(o.id) = Worth(OrderItems(o.id))
            /\ OrderItems(o.id) = {} => total_price(o.id) = 0)
    /\ [][(/\ oreq.op = "update" /\ oreq.pc = "create_items"
           /\ oreq'.pc = "done")
          => (total_price(oreq.order))' = (ListWorth(oreq.items))']_vars

\* An update has replaced the one item of an order by two items, of one unit
\* at 75 and of two units at 50.
C9_Witness ==
    /\ oreq.op = "update" /\ oreq.pc = "done" /\ oreq.resp = 200
    /\ nextItemId = 4
    /\ \E o \in orders :
          Cardinality(OrderItems(o.id)) = 2 /\ total_price(o.id) = 175

\* ---- C10
\* C10: a change of a product's price changes the subtotal of each of its
\* items to quantity times the new price, the total_price of each order by
\* the order's units of the product times the price difference, and the
\* total_spent of each customer by the units in the customer's orders times
\* the price difference: nothing keeps the old price.
C10_CurrentPrice ==
    [][\A p \in DOMAIN products :
         (p \in DOMAIN products' /\ products'[p] # products[p]) =>
            LET diff == products'[p] - products[p]
            IN  /\ \A i \in items :
                      i.product = p => subtotal(i)' = i.quantity * products'[p]
                /\ \A o \in orders :
                      total_price(o.id)' =
                          total_price(o.id) + Units(OrderItems(o.id), p) * diff
                /\ \A c \in customers :
                      total_spent(c)' =
                          total_spent(c) +
                          Units({i \in items : \E o \in orders :
                                     o.id = i.order /\ o.customer = c}, p) * diff]_vars

\* A product that has been repriced from 50 to 75 has an item of two units,
\* and its order and its customer show 150.
C10_Witness ==
    \E i \in items, o \in orders :
        /\ o.id = i.order /\ i.quantity = 2
        /\ products[i.product] = 75 /\ subtotal(i) = 150
        /\ total_price(o.id) = 150 /\ total_spent(o.customer) = 150

\* ---- C11
\* The units of all products in the rows `rows`.
AllUnits(rows) ==
    SumTo([p \in 1..(nextProductId - 1) |-> Units(rows, p)], nextProductId - 1)

Metric(row) ==
    IF report.op = "top_customers" THEN row.total_spent ELSE row.total_quantity_sold

\* The ranking metric of the entry id over the matched orders, computed from
\* the store.
StoreMetric(id) ==
    LET matched == {o \in orders :
                       date_filter(order_date[o.id], report.from, report.to)}
    IN  IF report.op = "top_customers"
        THEN Worth({i \in items : \E o \in matched :
                        o.id = i.order /\ o.customer = id})
        ELSE Units({i \in items : \E o \in matched : o.id = i.order}, id)

\* The response carries a top list.
TopList == report.op \in {"top_customers", "top_products"} /\ report.status = 200

Listed == {report.rows[n].id : n \in 1..Len(report.rows)}

C14_OnlyWithMatchedOrder ==
    TopList =>
        \A n \in 1..Len(report.rows) :
            \E o \in orders :
                /\ date_filter(order_date[o.id], report.from, report.to)
                /\ IF report.op = "top_customers"
                   THEN o.customer = report.rows[n].id
                   ELSE \E i \in items :
                           i.order = o.id /\ i.product = report.rows[n].id

\* ---- C15
\* The orders of customer c that the report's date filter matches.
MatchedOf(c) ==
    {o \in orders : /\ o.customer = c
                    /\ date_filter(order_date[o.id], report.from, report.to)}

\* C15: under a date filter, top-customers answers with a list, and the
\* total_spent of every customer listed is the sum of quantity times current
\* product price over the items of that customer's matched orders; the items
\* of the customer's other orders add nothing.
C15_SpentInRange ==
    (report.op = "top_customers" /\ (report.from # NoDate \/ report.to # NoDate)) =>
        /\ report.status = 200
        /\ \A n \in 1..Len(report.rows) :
              LET c == report.rows[n].id
              IN  report.rows[n].total_spent =
                      Worth({i \in items : \E o \in MatchedOf(c) : i.order = o.id})

C17_TiesByAscendingId ==
    report.op = "top_products" =>
        \A n, m \in 1..Len(report.rows) :
            (/\ n < m
             /\ report.rows[n].total_quantity_sold > 0
             /\ report.rows[n].total_quantity_sold = report.rows[m].total_quantity_sold)
                => report.rows[n].id < report.rows[m].id

\* ---- C18
\* The day an instant lies on.
DayOf(t) == t \div TicksPerDay

\* The orders placed on a day from the day `from` to the day `to`, both
\* days included; a bound not given does not restrict.
OrdersOnDays(from, to) ==
    {o \in orders : /\ from # NoDate => DayOf(order_date[o.id]) >= from
                    /\ to # NoDate => DayOf(order_date[o.id]) <= to}

\* C18: the order list and the three reports match exactly the orders
\* placed on a day within the bounds, the days given as from and as to
\* included; a bound that is not given does not restrict, and with no bound
\* every order is matched.
C18_InclusiveBounds ==
    LET on == IF report.op \in {"orders", "sales_summary", "top_customers",
                                "top_products"}
              THEN OrdersOnDays(report.from, report.to)
              ELSE {}
    IN  /\ report.op = "orders" =>
              report.ids = {o.id : o \in {x \in on : report.customer # NoId
                                                       => x.customer = report.customer}}
        /\ report.op = "sales_summary" => report.total_orders = Cardinality(on)
        /\ (report.op = "top_customers" /\ report.status = 200
              /\ Len(report.rows) < TopN) =>
              \A o \in on : o.customer \in Listed
        /\ (report.op = "top_products" /\ Len(report.rows) < TopN) =>
              \A o \in on : \A i \in OrderItems(o.id) : i.product \in Listed

\* ---- C19
\* C19: a request without credentials to any endpoint of the two projects
\* (resources, apply, analytics) is answered 401 with no data, and the step
\* that answers it changes no row of either store.
C19_Unauthenticated401 ==
    [][report'.op = "anonymous" =>
          /\ report'.status = 401
          /\ ~report'.data
          /\ UNCHANGED <<salesStore, jobVars, oreq>>]_vars

\* An analytics request without credentials answered 401 over a store that
\* holds orders.
C19_Witness ==
    /\ report.op = "anonymous" /\ report.endpoint = "sales_summary"
    /\ report.status = 401 /\ orders # {} /\ items # {}

\* ---- C20
\* C20: a product create or update whose price is zero or less is answered
\* with a validation error (400) and changes nothing in the store, and a
\* price is written to a product only if it is greater than zero: every
\* product created or updated through the API has price > 0.
C20_PriceValidated ==
    [][/\ \A p \in DOMAIN products' :
             (p \notin DOMAIN products \/ products'[p] # products[p])
                 => products'[p] > 0
       /\ (report' # report /\ report'.op = "product") =>
             /\ report'.price <= 0
             /\ report'.status = 400
             /\ UNCHANGED salesStore
       /\ \A p \in DOMAIN products' : products'[p] > 0]_vars

\* An update with price 0 was rejected, after a product was created and a
\* product was repriced.
C20_Witness ==
    /\ report.op = "product" /\ report.method = "PUT"
    /\ report.price = 0 /\ report.status = 400
    /\ nextProductId > MaxProducts + 1
    /\ \E p \in DOMAIN products : products[p] # ListPrice

\* ---- C21
\* The handler holds validated data and has writes ahead.
PastValidation(q) ==
    q.pc \in {"create_order", "save", "delete_items", "create_items"}

\* C21: a body of an order create or update with an item of quantity < 1
\* has a quantity error whatever else it holds; the request it belongs to
\* ends at validation with status 400 and no row written, deleted or
\* changed; the item lists that pass validation have quantities >= 1 only,
\* and so has every stored OrderItem.
C21_QuantityValidated ==
    [][/\ \A i \in items' : i.quantity >= 1
       /\ oreq.pc = "is_valid" =>
             \A c \in CustomerIds \cup {NoId}, L \in ItemLists :
                 (\E n \in 1..Len(L) : L[n].quantity < 1)
                     => "quantity" \in OrderSerializer_errors(c, TRUE, L)
       /\ (oreq' # oreq /\ "quantity" \in oreq'.errors) =>
             /\ oreq.pc = "is_valid" /\ oreq'.pc = "done" /\ oreq'.resp = 400
             /\ UNCHANGED salesStore
       /\ PastValidation(oreq') =>
             \A n \in 1..Len(oreq'.items) : oreq'.items[n].quantity >= 1]_vars

\* An update was answered 400 for a quantity alone, and the order's items
\* are still stored.
C21_Witness ==
    /\ oreq.op = "update" /\ oreq.pc = "done" /\ oreq.resp = 400
    /\ oreq.errors = {"quantity"}
    /\ orders # {} /\ \A o \in orders : OrderItems(o.id) # {}

\* ---- C22
\* C22: an order create, or an order update whose body has an item list,
\* with an empty list has the error of validate_items; the request ends at
\* validation with status 400, creates no Order row and deletes no item; a
\* create that passes validation, and an update that will replace the
\* items, hold a list with at least one entry.
C22_EmptyListRejected ==
    [][/\ oreq.pc = "is_valid" =>
             \A c \in CustomerIds \cup {NoId} :
                 "items" \in OrderSerializer_errors(c, TRUE, <<>>)
       /\ (oreq' # oreq /\ "items" \in oreq'.errors) =>
             /\ oreq.pc = "is_valid" /\ oreq'.pc = "done" /\ oreq'.resp = 400
             /\ orders' = orders /\ items' = items
             /\ UNCHANGED salesStore
       /\ (PastValidation(oreq') /\ (oreq'.replace \/ oreq'.op = "create")) =>
             oreq'.replace /\ Len(oreq'.items) > 0]_vars

\* An update with an empty item list was answered 400 and every order still
\* has its items.
C22_Witness ==
    /\ oreq.op = "update" /\ oreq.pc = "done" /\ oreq.resp = 400
    /\ oreq.errors = {"items"}
    /\ orders # {} /\ \A o \in orders : OrderItems(o.id) # {}

\* ---- C23
\* C23: every stored Applicant and Customer email is in lowercase, no two
\* rows of a table hold addresses that differ in letter case only, and a
\* create that is turned down for its address is answered as a duplicate,
\* with a validation error (400).
C23_EmailsLowercaseUnique ==
    /\ \A a \in DOMAIN applicant_email : ~applicant_email[a].upper
    /\ \A c \in DOMAIN customer_email : ~customer_email[c].upper
    /\ \A a, b \in DOMAIN applicant_email :
          applicant_email[a].user = applicant_email[b].user => a = b
    /\ \A c, d \in DOMAIN customer_email :
          customer_email[c].user = customer_email[d].user => c = d
    /\ report.op \in {"applicant", "customer"} => report.status = 400

\* ---- C24
\* The ids of the stored orders
OrderIdsOf(rows) == {o.id : o \in rows}

\* C24: a step that deletes an Applicant or a Job deletes with it exactly
\* the Applications that reference it, a step that deletes an Order deletes
\* with it exactly the order's OrderItems, and after every step each
\* Application references a stored Applicant and a stored Job and each
\* OrderItem references a stored Order.
C24_Cascade ==
    [][/\ (applicants' # applicants /\ applicants' \subseteq applicants) =>
             /\ applications' = {x \in applications : x.applicant \in applicants'}
             /\ jobs' = jobs
       /\ (jobs' # jobs /\ jobs' \subseteq jobs) =>
             /\ applications' = {x \in applications : x.job \in jobs'}
             /\ applicants' = applicants
       /\ (OrderIdsOf(orders') # OrderIdsOf(orders)
             /\ OrderIdsOf(orders') \subseteq OrderIdsOf(orders)) =>
             items' = {i \in items : i.order \in OrderIdsOf(orders')}
       /\ \A x \in applications' : x.applicant \in applicants' /\ x.job \in jobs'
       /\ \A i \in items' : i.order \in OrderIdsOf(orders')]_vars

\* Two applications were created and one is stored, one of two applicants
\* is gone and both jobs are stored: an applicant was deleted, and the
\* application of the other applicant stayed.
C24_Witness ==
    /\ nextApplicationId = 3 /\ Cardinality(applications) = 1
    /\ nextApplicantId = 3 /\ Cardinality(applicants) = 1
    /\ Cardinality(jobs) = 2

\* The stored row the update in slot r works on.
StoredRow(r) == CHOOSE x \in applications : x.id = req[r].row.id

\* The update in slot r is about to save the pair its row already holds.
KeepsPair(r) ==
    /\ req[r].op = "update"
    /\ \E x \in applications :
         /\ x.id = req[r].row.id
         /\ x.applicant = req[r].row.applicant /\ x.job = req[r].row.job

\* C25: a PATCH of /api/applications/{id}/ whose body holds only a status
\* out of applied, shortlisted, rejected is answered 200 and changes the
\* status of that application and nothing else: the body passes the field
\* validation with the instance's applicant and job kept, an update that
\* keeps its pair passes the uniqueness validator, its save replaces that
\* one row by the row with the new status and answers 200 with the record,
\* and no other application changes.  The status of every stored
\* application is one of the three values after every step.
C25_StatusPatch ==
    [][ /\ \A s \in STATUS_CHOICES :
             ApplicationSerializer_fields(SeqSlot, NoId, NoId, s)
               /\ req[SeqSlot].op = "update"
             => /\ req'[SeqSlot].pc = "run_validators"
                /\ req'[SeqSlot].row = [req[SeqSlot].row EXCEPT !.status = s]
                /\ req[SeqSlot].row \in applications
        /\ (KeepsPair(SeqSlot) /\ req[SeqSlot].pc = "run_validators"
              /\ req'[SeqSlot] # req[SeqSlot])
             => /\ req'[SeqSlot].pc = "perform_update"
                /\ req'[SeqSlot].row = req[SeqSlot].row
        /\ (KeepsPair(SeqSlot) /\ req[SeqSlot].pc = "perform_update"
              /\ req'[SeqSlot] # req[SeqSlot])
             => /\ req'[SeqSlot].resp = 200 /\ req'[SeqSlot].body = "record"
                /\ applications' =
                      (applications \ {StoredRow(SeqSlot)}) \cup
                      {[StoredRow(SeqSlot) EXCEPT
                            !.status = req[SeqSlot].row.status]}
                /\ UNCHANGED <<applicants, jobs>>
        /\ \A x \in applications' : x.status \in STATUS_CHOICES
      ]_vars

\* A status-only PATCH was answered 200 and the application, created as
\* 'applied', is stored as 'rejected' next to another application, which
\* still is 'applied'.
C25_Witness ==
    /\ req[SeqSlot].op = "update" /\ req[SeqSlot].resp = 200
    /\ \E x, y \in applications :
         /\ x.id # y.id
         /\ x.status = "rejected" /\ y.status = "applied"

\* C26: in every state the API leaves behind between two requests (orders
\* created, updated and deleted, products deleted, customers deleted) every
\* stored Order has at least one OrderItem.
C26_OrdersHaveItems ==
    OFree => \A o \in orders : OrderItems(o.id) # {}

\* Of the item rows `rows`, the ones the update in flight did not find when
\* it loaded the order: the rows it has created.
CreatedItems(rows) == {i \in rows : i.id \notin oreq.old}

\* The item rows `rows` are the complete old list of the update in flight.
OldList(rows) == {i.id : i \in rows} = oreq.old

\* The item rows `rows` are the complete list of the body.
NewList(rows) ==
    /\ rows = CreatedItems(rows)
    /\ Cardinality(rows) = Len(oreq.items)
    /\ \A n \in 1..Len(oreq.items) :
         \E i \in rows :
            i.product = oreq.items[n].product /\ i.quantity = oreq.items[n].quantity

\* No other request has written the items of order o since the update in
\* flight loaded it: they are the ones it found, or the ones it has created.
Undisturbed(o) ==
    \/ /\ oreq.pc = "delete_items"
       /\ OldList(OrderItems(o))
    \/ /\ oreq.pc = "create_items"
       /\ OrderItems(o) = CreatedItems(OrderItems(o))
       /\ Cardinality(OrderItems(o)) = oreq.k

\* C27: an order update that replaces the item list is atomic: every write
\* it makes to the items of an order no other request has touched (its
\* delete, each of its inserts) leaves a state, which another request can
\* read and which stays if the update fails right after, where the stored
\* items of the order are the complete old list or the complete new list.
C27_ReplaceAtomic ==
    [][ (oreq.op = "update" /\ oreq.replace /\ Undisturbed(oreq.order)
           /\ items' # items /\ oreq' # oreq)
          => LET rows == {i \in items' : i.order = oreq.order}
             IN  OldList(rows) \/ NewList(rows)
      ]_vars

\* Another stored application holds the pair the update in slot r is about
\* to save.
PairTaken(r) ==
    \E x \in applications :
        /\ x.id # req[r].row.id
        /\ x.applicant = req[r].row.applicant /\ x.job = req[r].row.job

\* C28: a PUT or PATCH of an application whose validated applicant and job
\* are the pair of another stored application is answered 400 with the
\* errors of the body by the step that runs the serializer's validators,
\* it never reaches the save, and no step of an update before its save
\* writes an application: both applications stay as they were.
C28_UpdateToTakenPair ==
    [][ /\ (req[SeqSlot].op = "update" /\ req[SeqSlot].pc = "run_validators"
              /\ PairTaken(SeqSlot) /\ req'[SeqSlot] # req[SeqSlot])
             => /\ req'[SeqSlot].pc = "done"
                /\ req'[SeqSlot].resp = 400
                /\ req'[SeqSlot].body = "non_field_errors"
        /\ (req[SeqSlot].op = "update" /\ req[SeqSlot].pc # "perform_update"
              /\ req'[SeqSlot] # req[SeqSlot])
             => applications' = applications
        /\ (req'[SeqSlot].op = "update" /\ req'[SeqSlot].pc = "perform_update")
             => ~PairTaken(SeqSlot)'
      ]_vars

\* An update was answered 400 for its pair, and the two applications of one
\* applicant are stored, one for each job.
C28_Witness ==
    /\ req[SeqSlot].op = "update" /\ req[SeqSlot].resp = 400
    /\ req[SeqSlot].body = "non_field_errors"
    /\ \E x, y \in applications :
         x.id # y.id /\ x.applicant = y.applicant /\ x.job # y.job

\* C29: an apply request whose applicant or job is deleted after the field
\* validation found it and before the insert ends in 201 with the
\* application stored or in 400 with no application stored, never in an
\* unhandled error; and no stored Application references a deleted
\* Applicant or Job.
C29_ApplyAgainstDelete ==
    [][ \A r \in Slots :
          (/\ req[r].op = "apply" /\ req[r].pc \in {"validate", "create", "insert"}
           /\ ~ForeignKeysHold(req[r].row.applicant, req[r].row.job)
           /\ req'[r] # req[r])
          => /\ req'[r].pc = "done" => req'[r].resp \in {201, 400}
             /\ req'[r].resp = 201 =>
                  ApplicationExists(req[r].row.applicant, req[r].row.job)'
             /\ req'[r].resp = 400 =>
                  ~ApplicationExists(req[r].row.applicant, req[r].row.job)'
             /\ \A x \in applications' : ForeignKeysHold(x.applicant, x.job)'
      ]_vars

\* The sum of total_spent over the first n rows of a top-customers list.
RECURSIVE SumSpent(_, _)
SumSpent(rows, n) ==
    IF n = 0 THEN 0 ELSE rows[n].total_spent + SumSpent(rows, n - 1)

\* The sum of the annotation `spent` over the customers cs.
RECURSIVE SumAnnotated(_, _)
SumAnnotated(spent, cs) ==
    IF cs = {} THEN 0
    ELSE LET c == CHOOSE x \in cs : TRUE
         IN  spent[c] + SumAnnotated(spent, cs \ {c})

\* The sum of Order.total_price over the orders os.
RECURSIVE SumTotalPrice(_)
SumTotalPrice(os) ==
    IF os = {} THEN 0
    ELSE LET o == CHOOSE x \in os : TRUE
         IN  total_price(o.id) + SumTotalPrice(os \ {o})

\* At most TopN customers have an order that the report's dates match.
FitsTopList ==
    Cardinality({o.customer : o \in FilteredOrders(report.from, report.to)}) <= TopN

\* C30: for every store and every date filter under which at most five
\* customers have a matched order, top-customers answers with a list whose
\* total_spent add up to the total_sales that sales-summary gives for the
\* same filter, whichever of the two reports is the one answered; and for
\* every customer Customer.total_spent is the sum of Order.total_price over
\* the customer's orders.
C30_SpentAddsUpToSales ==
    /\ (report.op = "top_customers" /\ FitsTopList) =>
          /\ report.status = 200
          /\ SumSpent(report.rows, Len(report.rows)) =
                 Aggregate(JoinedItems(FilteredOrders(report.from, report.to)))
    /\ (report.op = "sales_summary" /\ FitsTopList) =>
          report.total_sales =
              SumAnnotated(AnnotatedSpent(report.from, report.to),
                           CustomerRows(report.from, report.to))
    /\ \A c \in customers :
          total_spent(c) = SumTotalPrice({o \in orders : o.customer = c})

=============================================================================
